---- MODULE Spec2Model ----
(***************************************************************************)
(* Wisdom-Graph frontend: the Dashboard's map generation and the           *)
(* MapViewer's graph state (generation, load, selection, expansion).       *)
(*                                                                         *)
(* Strings built by template literals are modelled as token sequences:     *)
(* `${a}-sub-${t}-${i}` is a \o <<"sub", ToString(t), ToString(i)>>, so    *)
(* that two different ways of building the same string give the same id.   *)
(***************************************************************************)
EXTENDS Integers, Sequences, FiniteSets, TLC

VARIABLES
    page,          \* which routed page is mounted: "dashboard" or "viewer"
    dTopic,        \* Dashboard: topic input
    dLevel,        \* Dashboard: level select
    dLoading,      \* Dashboard: loading flag
    genReqs,       \* generate-map requests in flight
    mapId,         \* MapViewer: route parameter
    locState,      \* MapViewer: location.state
    nodes,         \* MapViewer: nodes state
    edges,         \* MapViewer: edges state
    selectedNode,  \* MapViewer: selectedNode state
    loading,       \* MapViewer: loading flag
    topic,         \* MapViewer: topic state
    level,         \* MapViewer: level state
    expandReqs,    \* expand-node requests of the mounted MapViewer in flight, each
                   \* with the closure that issued it
    loadReqs,      \* GET /maps/:id requests of the mounted MapViewer in flight
    clock,         \* the last value Date.now() returned
    issued,        \* number of requests issued so far
    lastOp,        \* what the step just taken did, when it handled an expand-node
                   \* response: the response, the toast shown, whether the selection
                   \* was of a node that was not in the graph
    store,         \* persistence store: the JSON document kept under each map id
    shown,         \* history: the graph on display when the document under a map
                   \* id was saved
    user,          \* AuthProvider: user state
    token,         \* AuthProvider: token state
    lsToken,       \* localStorage.getItem('token')
    authLoading,   \* AuthProvider: loading flag
    authReqs,      \* /auth/me, /auth/login and /auth/register requests in flight
    maps,          \* SavedMaps: maps state, the ids of the maps listed
    listReqs,      \* GET /maps requests of the mounted SavedMaps in flight
    delReqs        \* DELETE /maps/:id requests of the mounted SavedMaps in flight,
                   \* each with the maps of the render that issued it

vars == <<page, dTopic, dLevel, dLoading, genReqs, mapId, locState,
          nodes, edges, selectedNode, loading, topic, level,
          expandReqs, loadReqs, clock, issued, lastOp, store, shown,
          user, token, lsToken, authLoading, authReqs, maps, listReqs, delReqs>>

dashVars == <<dTopic, dLevel, dLoading>>
routeVars == <<page, mapId, locState>>
netVars == <<genReqs, expandReqs, loadReqs>>
viewVars == <<nodes, edges, selectedNode, loading, topic, level>>
storeVars == <<store, shown>>
authVars == <<user, token, lsToken, authLoading, authReqs>>
listVars == <<maps, listReqs, delReqs>>

----------------------------------------------------------------------------
(* Bounds of the model *)

\* longest list of subtopics an expand-node response carries
MaxSub == 1
\* largest value of the millisecond clock
MaxClock == 1
\* requests (generate, load, expand) issued in one run
MaxReq == 3
\* edges of a graph given to getLayoutedElements on its own
MaxLayoutEdges == 3
\* maps saved in one run
MaxSaved == 1
\* edges drawn by hand that a graph holds at one time
MaxConnect == 1

----------------------------------------------------------------------------
(* Values *)

NodeWidth == 250
NodeHeight == 100
\* dagre's defaults, used because setGraph gives only rankdir
NodeSep == 50
RankSep == 50

Origin == [x |-> 0, y |-> 0]
NoNode == [id |-> <<>>, label |-> "", position |-> Origin]
NoPayload == [nodes |-> <<>>, edges |-> <<>>]
NoState == [mapData |-> NoPayload, topic |-> "", level |-> "", set |-> FALSE]
NoOp == [outcome |-> "none", k |-> 0, toast |-> "", stale |-> FALSE]

TopicInputs == {"", " ", "Gardening"}

PNode(i, l) == [id |-> i, label |-> l]
PEdge(f, t) == [from |-> f, to |-> t]

\* Payloads of the content provider's generateInitial
TreePayload ==
    [nodes |-> <<PNode(<<"a">>, "A"), PNode(<<"b">>, "B")>>,
     edges |-> <<PEdge(<<"a">>, <<"b">>)>>]
EmptyPayload == [nodes |-> <<>>, edges |-> <<>>]
DanglingPayload ==
    [nodes |-> <<PNode(<<"a">>, "A")>>,
     edges |-> <<PEdge(<<"a">>, <<"z">>)>>]
DuplicatePayload ==
    [nodes |-> <<PNode(<<"a">>, "A"), PNode(<<"a">>, "A2")>>,
     edges |-> <<>>]
Payloads == {TreePayload, EmptyPayload, DanglingPayload, DuplicatePayload}

\* Records of the persistence store, by map id
MapIds == {"m1"}
StoredMap(id) ==
    [topic |-> "Cooking", level |-> "Advanced",
     nodes |-> <<[id |-> <<"c">>, label |-> "C", position |-> [x |-> 0, y |-> 0]],
                 [id |-> <<"d">>, label |-> "D", position |-> [x |-> 0, y |-> 150]]>>,
     edges |-> <<[id |-> <<"e0", "c", "d">>, source |-> <<"c">>, target |-> <<"d">>]>>]

\* ids the store gives to the maps saved in a run
SavedId(i) == "s" \o ToString(i)
SavedIds == {SavedId(i) : i \in 1..MaxSaved}

\* JSON.stringify of an object: its keys in order, each with its value. A number
\* that is not finite would be written as null; node positions are sums and
\* differences of integers, so none occurs.
JsonNode(n) ==
    << <<"id", n.id>>, <<"label", n.label>>,
       <<"position", << <<"x", n.position.x>>, <<"y", n.position.y>> >> >> >>
JsonEdge(e) == << <<"id", e.id>>, <<"source", e.source>>, <<"target", e.target>> >>
Stringify(tp, lv, ns, es) ==
    << <<"topic", tp>>, <<"level", lv>>,
       <<"nodes", [i \in 1..Len(ns) |-> JsonNode(ns[i])]>>,
       <<"edges", [i \in 1..Len(es) |-> JsonEdge(es[i])]>> >>

\* property access on a parsed document
JsonHas(doc, key) == \E i \in 1..Len(doc) : doc[i][1] = key
JsonGet(doc, key) == doc[CHOOSE i \in 1..Len(doc) : doc[i][1] = key][2]
\* what reading a property the document does not have gives: undefined, for a
\* string and for a position (a marker no layout yields as a position)
Undefined == "undefined"
NoPosition == [x |-> -1, y |-> -1]
ParseNode(d) ==
    [id |-> JsonGet(d, "id"), label |-> JsonGet(d, "label"),
     position |-> IF JsonHas(d, "position")
                  THEN [x |-> JsonGet(JsonGet(d, "position"), "x"),
                        y |-> JsonGet(JsonGet(d, "position"), "y")]
                  ELSE NoPosition]
ParseEdge(d) ==
    [id |-> JsonGet(d, "id"), source |-> JsonGet(d, "source"),
     target |-> JsonGet(d, "target")]
\* response.data.map of GET /maps/:id for the document doc
Parse(doc) ==
    [topic |-> IF JsonHas(doc, "topic") THEN JsonGet(doc, "topic") ELSE Undefined,
     level |-> IF JsonHas(doc, "level") THEN JsonGet(doc, "level") ELSE Undefined,
     nodes |-> [i \in 1..Len(JsonGet(doc, "nodes")) |->
                   ParseNode(JsonGet(doc, "nodes")[i])],
     edges |-> [i \in 1..Len(JsonGet(doc, "edges")) |->
                   ParseEdge(JsonGet(doc, "edges")[i])]]

\* no document under a map id
NoDoc == <<>>
NoGraph == [topic |-> "", level |-> "", nodes |-> <<>>, edges |-> <<>>]

\* the store before any map of the run is saved
StoreInit ==
    [id \in MapIds \cup SavedIds |->
        IF id \in MapIds
        THEN Stringify(StoredMap(id).topic, StoredMap(id).level,
                       StoredMap(id).nodes, StoredMap(id).edges)
        ELSE NoDoc]

\* no user; no token
NoUser == "null"
NoToken == "null"
\* the token localStorage can hold from an earlier visit, and the user
\* /auth/me answers for it
OldToken == "t0"
OldUser == "u0"

\* the AuthProvider of a signed-in user, as PrivateRoute asks for before it
\* renders the Dashboard or the MapViewer
\* no SavedMaps page is mounted
ListsUnmounted ==
    /\ maps = <<>>
    /\ listReqs = {}
    /\ delReqs = {}

AuthSignedIn ==
    /\ user = OldUser
    /\ token = OldToken
    /\ lsToken = OldToken
    /\ authLoading = FALSE
    /\ authReqs = {}

\* Subtopic lists of the content provider's expandNode
Subtopics(k) == [i \in 1..k |-> [label |-> "S" \o ToString(i)]]

Range(s) == {s[i] : i \in 1..Len(s)}
NodeIds(ns) == {ns[i].id : i \in 1..Len(ns)}
EdgeIds(es) == {es[i].id : i \in 1..Len(es)}
Max(S) == CHOOSE m \in S : \A n \in S : n <= m
Min(S) == CHOOSE m \in S : \A n \in S : m <= n

----------------------------------------------------------------------------
(* getLayoutedElements *)

\* dagreGraph.setNode / setEdge: the ids given to the graph, in the order given;
\* an id given again names the vertex it named first
DagreInserted(ns, es) ==
    [i \in 1..Len(ns) |-> ns[i].id]
    \o [i \in 1..Len(es) |-> es[i].source]
    \o [i \in 1..Len(es) |-> es[i].target]

\* the vertices of the graph, each once, in the order of their first insertion
RECURSIVE DagreVertices(_, _)
DagreVertices(ins, acc) ==
    IF ins = <<>> THEN acc
    ELSE DagreVertices(Tail(ins),
                       IF Head(ins) \in Range(acc) THEN acc
                       ELSE Append(acc, Head(ins)))

\* the edges dagre lays out, as <<v, w>>, in the order of their first insertion:
\* setEdge on a pair it already has names the same edge, and dagre.layout sets
\* self-loops aside before it ranks
RECURSIVE DagreEdges(_, _)
DagreEdges(es, acc) ==
    IF es = <<>> THEN acc
    ELSE LET e == <<Head(es).source, Head(es).target>>
         IN  DagreEdges(Tail(es),
                        IF e[1] = e[2] \/ e \in Range(acc) THEN acc
                        ELSE Append(acc, e))

\* dagre.layout, making the graph acyclic: a depth-first search from every
\* vertex in insertion order, along the out-edges in insertion order; an edge to
\* a vertex on the search stack is a back edge. fas collects the back edges.
RECURSIVE Dfs(_, _, _, _), DfsOut(_, _, _, _)
Dfs(E, v, stack, st) ==
    IF v \in st.visited THEN st
    ELSE DfsOut(E, SelectSeq(E, LAMBDA e : e[1] = v), stack \cup {v},
                [st EXCEPT !.visited = @ \cup {v}])
DfsOut(E, outs, stack, st) ==
    IF outs = <<>> THEN st
    ELSE DfsOut(E, Tail(outs), stack,
                IF Head(outs)[2] \in stack
                THEN [st EXCEPT !.fas = @ \cup {Head(outs)}]
                ELSE Dfs(E, Head(outs)[2], stack, st))

RECURSIVE DfsAll(_, _, _)
DfsAll(E, vs, st) ==
    IF vs = <<>> THEN st ELSE DfsAll(E, Tail(vs), Dfs(E, Head(vs), {}, st))

\* the edges after the back edges are reversed; a reversed edge stands beside an
\* edge the graph already has in that direction
RECURSIVE Reversed(_, _, _)
Reversed(E, fas, acc) ==
    IF E = <<>> THEN acc
    ELSE Reversed(Tail(E), fas,
                  Append(acc, IF Head(E) \in fas THEN <<Head(E)[2], Head(E)[1]>>
                              ELSE Head(E)))

\* a variant of Acyclic that reverses no edge
AcyclicNone(V, E) == E

Acyclic(V, E) == Reversed(E, DfsAll(E, V, [visited |-> {}, fas |-> {}]).fas, <<>>)

\* the function that has F(v) at every v of the sequence vs, added to acc
RECURSIVE Table(_, _, _)
Table(F(_), vs, acc) ==
    IF vs = <<>> THEN acc ELSE Table(F, Tail(vs), (Head(vs) :> F(Head(vs))) @@ acc)

\* the vertices with an edge of A into S
Above(S, A) == {A[i][1] : i \in {i \in 1..Len(A) : A[i][2] \in S}}

\* acc[k + 1] is the set of vertices that begin a path of k edges of A
RECURSIVE PathStarts(_, _, _)
PathStarts(acc, A, n) ==
    IF n = 0 \/ acc[Len(acc)] = {} THEN acc
    ELSE PathStarts(Append(acc, Above(acc[Len(acc)], A)), A, n - 1)

\* dagre.layout, the ranking it starts from: every vertex as far down as its
\* out-edges allow, the sinks on rank 0 and the others above them
InitRank(V, A) ==
    LET starts == PathStarts(<<Range(V)>>, A, Len(V))
        depth(v) == 1 - Max({k \in 1..Len(starts) : v \in starts[k]})
    IN  Table(depth, V, <<>>)

\* dagre.layout, network simplex: from ranking r, move sets of vertices up by a
\* rank as long as that is allowed (no edge into the set is tight) and shortens
\* more edges than it lengthens; what is left has the least total edge length
RECURSIVE Tighten(_, _, _)
Tighten(r, V, A) ==
    LET In(S) == {i \in 1..Len(A) : A[i][2] \in S /\ A[i][1] \notin S}
        Out(S) == {i \in 1..Len(A) : A[i][1] \in S /\ A[i][2] \notin S}
        better == {S \in SUBSET Range(V) :
                      /\ \A i \in In(S) : r[A[i][2]] - r[A[i][1]] >= 2
                      /\ Cardinality(In(S)) > Cardinality(Out(S))}
    IN  IF better = {} THEN r
        ELSE LET S == CHOOSE S \in better : TRUE
                 up(v) == IF v \in S THEN r[v] - 1 ELSE r[v]
             IN  Tighten(Table(up, V, <<>>), V, A)

\* dagre.layout, the ranking of least total edge length. In such a ranking a
\* vertex with one edge is one rank from its neighbour, wherever the others
\* are, so it is ranked after them.
RECURSIVE Simplex(_, _)
Simplex(V, A) ==
    LET EdgesOf(v) == {i \in 1..Len(A) : v = A[i][1] \/ v = A[i][2]}
        leaves == {i \in 1..Len(V) : Cardinality(EdgesOf(V[i])) = 1}
    IN  IF leaves = {} THEN Tighten(InitRank(V, A), V, A)
        ELSE LET v == V[Min(leaves)]
                 i == CHOOSE i \in EdgesOf(v) : TRUE
                 rest == Simplex(SelectSeq(V, LAMBDA u : u # v),
                                 SubSeq(A, 1, i - 1) \o SubSeq(A, i + 1, Len(A)))
             IN  (v :> IF A[i][1] = v THEN rest[A[i][2]] - 1
                       ELSE rest[A[i][1]] + 1) @@ rest

\* the vertices joined to those of S by edges of A, whatever their direction
RECURSIVE Joined(_, _)
Joined(S, A) ==
    LET more == S \cup {A[i][1] : i \in {i \in 1..Len(A) : A[i][2] \in S}}
                  \cup {A[i][2] : i \in {i \in 1..Len(A) : A[i][1] \in S}}
    IN  IF more = S THEN S ELSE Joined(more, A)

\* dagre.layout, the ranks: every connected part of the graph hangs from the top
\* rank, 0
Ranks(V, A) ==
    LET r == Simplex(V, A)
        fromTop(v) == r[v] - Min({r[u] : u \in Joined({v}, A)})
    IN  Table(fromTop, V, <<>>)

\* dagre.layout, the centre of vertex v. A rank is as high as its highest
\* vertex, and a vertex that setEdge made has no height; ranks are RankSep
\* apart. The vertices of a rank stand side by side in insertion order,
\* NodeSep apart.
DagreNode(V, real, rank, v) ==
    LET RankHeight(k) == IF \E u \in real : u \in DOMAIN rank /\ rank[u] = k
                         THEN NodeHeight ELSE 0
        RECURSIVE Top(_)
        Top(k) == IF k = 0 THEN 0 ELSE Top(k - 1) + RankHeight(k - 1) + RankSep
        first == Min({i \in 1..Len(V) : V[i] = v})
        order == Cardinality({j \in 1..(first - 1) : rank[V[j]] = rank[v]})
    IN  [x |-> order * (NodeWidth + NodeSep) + NodeWidth \div 2,
         y |-> Top(rank[v]) + NodeHeight \div 2]

\* a variant of getLayoutedElements that moves every node by what the layout
\* computes, from where the node was
getLayoutedElementsRelative(ns, es) ==
    LET V == DagreVertices(DagreInserted(ns, es), <<>>)
        rank == Ranks(V, Acyclic(V, DagreEdges(es, <<>>)))
    IN  [nodes |-> [i \in 1..Len(ns) |->
                      LET nodeWithPosition == DagreNode(V, NodeIds(ns), rank, ns[i].id)
                      IN  [ns[i] EXCEPT !.position =
                              [x |-> ns[i].position.x + nodeWithPosition.x,
                               y |-> ns[i].position.y + nodeWithPosition.y]]],
         edges |-> es]

\* a variant of getLayoutedElements that returns one node for every vertex of
\* the dagre graph that is a node, not one for every node it was given
getLayoutedElementsPerVertex(ns, es) ==
    LET V == DagreVertices(DagreInserted(ns, es), <<>>)
        rank == Ranks(V, Acyclic(V, DagreEdges(es, <<>>)))
        RECURSIVE Each(_, _)
        Each(i, acc) ==
            IF i > Len(ns) THEN acc
            ELSE IF \E j \in 1..(i - 1) : ns[j].id = ns[i].id
                 THEN Each(i + 1, acc)
                 ELSE LET nodeWithPosition == DagreNode(V, NodeIds(ns), rank, ns[i].id)
                      IN  Each(i + 1, Append(acc, [ns[i] EXCEPT !.position =
                                                     [x |-> nodeWithPosition.x - 125,
                                                      y |-> nodeWithPosition.y - 50]]))
    IN  [nodes |-> Each(1, <<>>), edges |-> es]

getLayoutedElements(ns, es) ==
    LET V == DagreVertices(DagreInserted(ns, es), <<>>)
        rank == Ranks(V, Acyclic(V, DagreEdges(es, <<>>)))
    IN  [nodes |-> [i \in 1..Len(ns) |->
                      LET nodeWithPosition == DagreNode(V, NodeIds(ns), rank, ns[i].id)
                      IN  [ns[i] EXCEPT !.position =
                              [x |-> nodeWithPosition.x - 125,
                               y |-> nodeWithPosition.y - 50]]],
         edges |-> es]

----------------------------------------------------------------------------
(* processMapData *)

processMapData(mapData) ==
    LET processedNodes ==
            [i \in 1..Len(mapData.nodes) |->
                [id |-> mapData.nodes[i].id,
                 label |-> mapData.nodes[i].label,
                 position |-> Origin]]
        processedEdges ==
            [i \in 1..Len(mapData.edges) |->
                [id |-> <<"e" \o ToString(i - 1)>>
                        \o mapData.edges[i].from \o mapData.edges[i].to,
                 source |-> mapData.edges[i].from,
                 target |-> mapData.edges[i].to]]
    IN  getLayoutedElements(processedNodes, processedEdges)

----------------------------------------------------------------------------
Init ==
    /\ page = "dashboard"
    /\ dTopic = ""
    /\ dLevel = "Beginner"
    /\ dLoading = FALSE
    /\ genReqs = {}
    /\ mapId = ""
    /\ locState = NoState
    /\ nodes = <<>>
    /\ edges = <<>>
    /\ selectedNode = NoNode
    /\ loading = FALSE
    /\ topic = ""
    /\ level = "Beginner"
    /\ expandReqs = {}
    /\ loadReqs = {}
    /\ clock = 0
    /\ issued = 0
    /\ lastOp = NoOp
    /\ store = StoreInit
    /\ shown = [id \in SavedIds |-> NoGraph]
    /\ AuthSignedIn
    /\ ListsUnmounted

----------------------------------------------------------------------------
(* Helpers of the actions *)

\* String.prototype.trim on the topic inputs
Trim(s) == IF s = " " THEN "" ELSE s

\* useState initial values of a freshly mounted Dashboard
\* the requests of a Dashboard that has unmounted: their responses still run in
\* its closure, where the state setters change nothing and navigate still works
Orphaned(reqs) == {[r EXCEPT !.mounted = FALSE] : r \in reqs}

FreshDashboard ==
    /\ dTopic' = ""
    /\ dLevel' = "Beginner"
    /\ dLoading' = FALSE

\* initMap, the effect on [mapId, location.state], for the route (mid, st) in a
\* MapViewer whose graph state before the effect is (ns, es, tp, lv) and whose
\* loads in flight are reqs
initMap(mid, st, reqs, ns, es, tp, lv) ==
    IF mid = "new" /\ st.set
    THEN /\ topic' = st.topic
         /\ level' = st.level
         /\ LET layouted == processMapData(st.mapData)
            IN  /\ nodes' = layouted.nodes
                /\ edges' = layouted.edges
         /\ loadReqs' = reqs
         /\ UNCHANGED issued
    ELSE /\ mid # "new"
         /\ issued < MaxReq
         /\ issued' = issued + 1
         /\ loadReqs' = reqs \cup {[rid |-> issued + 1, id |-> mid]}
         /\ nodes' = ns
         /\ edges' = es
         /\ topic' = tp
         /\ level' = lv

----------------------------------------------------------------------------
(* Dashboard *)

SetTopic(t) ==
    /\ UNCHANGED storeVars
    /\ UNCHANGED authVars
    /\ UNCHANGED listVars
    /\ page = "dashboard"
    /\ dTopic' = t
    /\ UNCHANGED <<dLevel, dLoading, routeVars, viewVars, netVars, clock,
                   issued>>
    /\ lastOp' = NoOp

\* handleGenerateMap up to its await; the submit button is disabled while loading
handleGenerateMap ==
    /\ UNCHANGED storeVars
    /\ UNCHANGED authVars
    /\ UNCHANGED listVars
    /\ page = "dashboard"
    /\ ~dLoading
    /\ IF Trim(dTopic) = ""
       THEN UNCHANGED <<dLoading, genReqs, issued>>
       ELSE /\ issued < MaxReq
            /\ issued' = issued + 1
            /\ dLoading' = TRUE
            /\ genReqs' = genReqs \cup
                   {[rid |-> issued + 1, topic |-> dTopic, level |-> dLevel,
                     mounted |-> TRUE]}
    /\ UNCHANGED <<dTopic, dLevel, routeVars, viewVars, expandReqs, loadReqs,
                   clock>>
    /\ lastOp' = NoOp

\* a variant of GenerateFailed that leaves the Dashboard's loading flag set
GenerateFailedStuck(r, how) ==
    /\ UNCHANGED storeVars
    /\ UNCHANGED authVars
    /\ UNCHANGED listVars
    /\ r \in genReqs
    /\ how \in {"reject", "fail"}
    /\ genReqs' = genReqs \ {r}
    /\ UNCHANGED <<dashVars, routeVars, viewVars, expandReqs, loadReqs, clock,
                   issued>>
    /\ lastOp' = [outcome |-> "generate-" \o how, k |-> 0, toast |-> "",
                  stale |-> FALSE]

\* handleGenerateMap after its await, the request rejected or success = false
GenerateFailed(r, how) ==
    /\ UNCHANGED storeVars
    /\ UNCHANGED authVars
    /\ UNCHANGED listVars
    /\ r \in genReqs
    /\ how \in {"reject", "fail"}
    /\ genReqs' = genReqs \ {r}
    /\ dLoading' = IF r.mounted THEN FALSE ELSE dLoading
    /\ UNCHANGED <<dTopic, dLevel, routeVars, viewVars, expandReqs, loadReqs,
                   clock, issued>>
    /\ lastOp' = [outcome |-> "generate-" \o how, k |-> 0,
                  toast |-> IF how = "reject"
                            THEN "Failed to generate learning map" ELSE "",
                  stale |-> FALSE]

\* handleGenerateMap after its await, success = true with payload p:
\* navigate('/map/new', {state}), which mounts the MapViewer or, when one is
\* mounted, changes its route; and the MapViewer's initMap that follows
GenerateSucceeded(r, p) ==
    /\ UNCHANGED storeVars
    /\ UNCHANGED authVars
    /\ UNCHANGED listVars
    /\ r \in genReqs
    /\ p \in Payloads
    /\ genReqs' = Orphaned(genReqs \ {r})
    /\ page' = "viewer"
    /\ mapId' = "new"
    /\ FreshDashboard
    /\ LET st == [mapData |-> p, topic |-> r.topic, level |-> r.level, set |-> TRUE]
       IN  /\ locState' = st
           /\ IF page = "dashboard"
              THEN /\ selectedNode' = NoNode
                   /\ loading' = FALSE
                   /\ initMap("new", st, {}, <<>>, <<>>, "", "Beginner")
              ELSE /\ UNCHANGED <<selectedNode, loading>>
                   /\ initMap("new", st, loadReqs, nodes, edges, topic, level)
    /\ UNCHANGED <<expandReqs, clock>>
    /\ lastOp' = NoOp

\* SavedMaps: navigate(`/map/${map.id}`), reached from the Dashboard; the
\* MapViewer mounts and its initMap calls loadMap
OpenSavedMap(m) ==
    /\ UNCHANGED storeVars
    /\ UNCHANGED authVars
    /\ UNCHANGED listVars
    /\ page = "dashboard"
    /\ m \in DOMAIN store
    /\ store[m] # NoDoc
    /\ page' = "viewer"
    /\ mapId' = m
    /\ locState' = NoState
    /\ FreshDashboard
    /\ selectedNode' = NoNode
    /\ loading' = FALSE
    /\ initMap(m, NoState, {}, <<>>, <<>>, "", "Beginner")
    /\ genReqs' = Orphaned(genReqs)
    /\ UNCHANGED <<expandReqs, clock>>
    /\ lastOp' = NoOp

----------------------------------------------------------------------------
(* MapViewer *)

\* back-btn: navigate('/dashboard'); the MapViewer unmounts and its state is
\* gone. The state setters of an unmounted component change nothing, so the
\* responses to its requests in flight are dropped with it.
Back ==
    /\ UNCHANGED storeVars
    /\ UNCHANGED authVars
    /\ UNCHANGED listVars
    /\ page = "viewer"
    /\ page' = "dashboard"
    /\ mapId' = ""
    /\ locState' = NoState
    /\ nodes' = <<>>
    /\ edges' = <<>>
    /\ topic' = ""
    /\ level' = "Beginner"
    /\ selectedNode' = NoNode
    /\ loading' = FALSE
    /\ expandReqs' = {}
    /\ loadReqs' = {}
    /\ UNCHANGED <<dashVars, genReqs, clock, issued>>
    /\ lastOp' = NoOp

\* loadMap after its await
LoadResponse(r, how) ==
    /\ UNCHANGED storeVars
    /\ UNCHANGED authVars
    /\ UNCHANGED listVars
    /\ r \in loadReqs
    /\ how \in {"ok", "fail", "reject"}
    /\ loadReqs' = loadReqs \ {r}
    /\ IF how = "ok"
       THEN LET map == Parse(store[r.id])
            IN  /\ topic' = map.topic
                /\ level' = map.level
                /\ nodes' = map.nodes
                /\ edges' = map.edges
       ELSE UNCHANGED <<topic, level, nodes, edges>>
    /\ UNCHANGED <<dashVars, routeVars, selectedNode, loading, genReqs,
                   expandReqs, clock, issued>>
    /\ lastOp' = NoOp

onNodeClick(i) ==
    /\ UNCHANGED storeVars
    /\ UNCHANGED authVars
    /\ UNCHANGED listVars
    /\ page = "viewer"
    /\ i \in 1..Len(nodes)
    /\ selectedNode' = nodes[i]
    /\ UNCHANGED <<dashVars, routeVars, nodes, edges, loading, topic, level,
                   netVars, clock, issued>>
    /\ lastOp' = NoOp

\* close-node-panel-btn
ClosePanel ==
    /\ UNCHANGED storeVars
    /\ UNCHANGED authVars
    /\ UNCHANGED listVars
    /\ page = "viewer"
    /\ selectedNode # NoNode
    /\ selectedNode' = NoNode
    /\ UNCHANGED <<dashVars, routeVars, nodes, edges, loading, topic, level,
                   netVars, clock, issued>>
    /\ lastOp' = NoOp

----------------------------------------------------------------------------
(* MapViewer: expansion *)

\* a variant of ExpandEnabled whose button is never disabled
ExpandEnabledNoGuard == selectedNode # NoNode

\* when a click reaches handleExpandNode and passes its first line: the button is
\* rendered only in the selected-node panel and is disabled while loading
ExpandEnabled == selectedNode # NoNode /\ ~loading

\* handleExpandNode up to its await: the request, and the closure it runs in
handleExpandNode ==
    /\ UNCHANGED storeVars
    /\ UNCHANGED authVars
    /\ UNCHANGED listVars
    /\ page = "viewer"
    /\ ExpandEnabled
    /\ issued < MaxReq
    /\ issued' = issued + 1
    /\ loading' = TRUE
    /\ expandReqs' = expandReqs \cup
           {[rid |-> issued + 1, mapId |-> mapId, sel |-> selectedNode,
             nodes |-> nodes, edges |-> edges, topic |-> topic, level |-> level]}
    /\ UNCHANGED <<dashVars, routeVars, nodes, edges, selectedNode, topic,
                   level, genReqs, loadReqs, clock>>
    /\ lastOp' = NoOp

\* Responses to expand-node: the request rejects; success = false; success = true
\* with subtopics that is no list; success = true with a list of k subtopics
ExpandResponses ==
    {[kind |-> "reject", k |-> 0], [kind |-> "fail", k |-> 0],
     [kind |-> "notlist", k |-> 0]}
    \cup {[kind |-> "ok", k |-> k] : k \in 0..MaxSub}

\* newNodes of handleExpandNode
NewNodes(r, k, now) ==
    [i \in 1..k |->
        [id |-> r.sel.id \o <<"sub", ToString(now), ToString(i - 1)>>,
         label |-> Subtopics(k)[i].label,
         position |-> Origin]]

\* newEdges of handleExpandNode
NewEdges(r, k, now) ==
    [i \in 1..k |->
        [id |-> <<"e">> \o r.sel.id \o NewNodes(r, k, now)[i].id,
         source |-> r.sel.id,
         target |-> NewNodes(r, k, now)[i].id]]

\* a variant of ExpandResult that shows a placeholder child before the response
\* is examined and does not take it back when the response is a failure
ExpandResultOptimistic(r, resp, now) ==
    LET lay == getLayoutedElements(r.nodes \o NewNodes(r, IF resp.kind = "ok" THEN resp.k ELSE 1, now),
                                   r.edges \o NewEdges(r, IF resp.kind = "ok" THEN resp.k ELSE 1, now))
    IN  [did |-> resp.kind = "ok", nodes |-> lay.nodes, edges |-> lay.edges,
         toast |-> IF resp.kind = "ok" THEN "Node expanded successfully!"
                   ELSE IF resp.kind = "fail" THEN ""
                   ELSE "Failed to expand node"]

\* a variant of ExpandResult that publishes the merged nodes and not the edges
ExpandResultNodesOnly(r, resp, now) ==
    IF resp.kind = "ok"
    THEN [did |-> TRUE,
          nodes |-> getLayoutedElements(r.nodes \o NewNodes(r, resp.k, now),
                                        r.edges \o NewEdges(r, resp.k, now)).nodes,
          edges |-> edges,
          toast |-> "Node expanded successfully!"]
    ELSE [did |-> FALSE, nodes |-> nodes, edges |-> edges,
          toast |-> IF resp.kind = "fail" THEN "" ELSE "Failed to expand node"]

\* a variant of ExpandResult that keeps, of the nodes and edges it had, only the
\* selected node
ExpandResultChildrenOnly(r, resp, now) ==
    IF resp.kind = "ok"
    THEN LET lay == getLayoutedElements(<<r.sel>> \o NewNodes(r, resp.k, now),
                                        NewEdges(r, resp.k, now))
         IN  [did |-> TRUE, nodes |-> lay.nodes, edges |-> lay.edges,
              toast |-> "Node expanded successfully!"]
    ELSE [did |-> FALSE, nodes |-> nodes, edges |-> edges,
          toast |-> IF resp.kind = "fail" THEN "" ELSE "Failed to expand node"]

\* a variant of ExpandResult that lays out the new nodes alone and leaves the
\* nodes it had where they were
ExpandResultNewOnly(r, resp, now) ==
    IF resp.kind = "ok"
    THEN [did |-> TRUE,
          nodes |-> r.nodes \o getLayoutedElements(NewNodes(r, resp.k, now), <<>>).nodes,
          edges |-> r.edges \o NewEdges(r, resp.k, now),
          toast |-> "Node expanded successfully!"]
    ELSE [did |-> FALSE, nodes |-> nodes, edges |-> edges,
          toast |-> IF resp.kind = "fail" THEN "" ELSE "Failed to expand node"]

\* what handleExpandNode does after its await, in the closure of request r, with
\* response resp and Date.now() = now: the values of nodes and edges after it,
\* the toast shown ("": none), and did: the success branch ran to its end
ExpandResult(r, resp, now) ==
    IF resp.kind = "ok"
    THEN LET lay == getLayoutedElements(r.nodes \o NewNodes(r, resp.k, now),
                                        r.edges \o NewEdges(r, resp.k, now))
         IN  [did |-> TRUE, nodes |-> lay.nodes, edges |-> lay.edges,
              toast |-> "Node expanded successfully!"]
    ELSE [did |-> FALSE, nodes |-> nodes, edges |-> edges,
          toast |-> IF resp.kind = "fail" THEN "" ELSE "Failed to expand node"]

\* handleExpandNode after its await. now is what Date.now() returns, read only
\* when there is a subtopic to name: the value it returned last, or the next.
ExpandResponse(r, resp, now) ==
    /\ UNCHANGED storeVars
    /\ UNCHANGED authVars
    /\ UNCHANGED listVars
    /\ r \in expandReqs
    /\ resp \in ExpandResponses
    /\ IF resp.kind = "ok" /\ resp.k > 0
       THEN now \in clock..MaxClock /\ now <= clock + 1
       ELSE now = clock
    /\ clock' = now
    /\ expandReqs' = expandReqs \ {r}
    /\ LET res == ExpandResult(r, resp, now)
       IN  /\ lastOp' = [outcome |-> resp.kind, k |-> resp.k, toast |-> res.toast,
                         stale |-> r.sel.id \notin NodeIds(r.nodes)]
           /\ nodes' = res.nodes
           /\ edges' = res.edges
           /\ selectedNode' = IF res.did THEN NoNode ELSE selectedNode
           /\ loading' = FALSE
    /\ UNCHANGED <<dashVars, routeVars, topic, level, genReqs, loadReqs, issued>>

----------------------------------------------------------------------------
Next ==
    \/ \E t \in TopicInputs : SetTopic(t)
    \/ handleGenerateMap
    \/ \E r \in genReqs, how \in {"reject", "fail"} : GenerateFailed(r, how)
    \/ \E r \in genReqs, p \in Payloads : GenerateSucceeded(r, p)
    \/ \E m \in MapIds \cup SavedIds : OpenSavedMap(m)
    \/ Back
    \/ \E r \in loadReqs, how \in {"ok", "fail", "reject"} : LoadResponse(r, how)
    \/ \E i \in 1..Len(nodes) : onNodeClick(i)
    \/ ClosePanel
    \/ handleExpandNode
    \/ \E r \in expandReqs, resp \in ExpandResponses, now \in 0..MaxClock :
          ExpandResponse(r, resp, now)

Spec == Init /\ [][Next]_vars

\* the application when every expand-node request in flight is answered: the
\* await of handleExpandNode settles, with a response or with an error
LiveSpec ==
    /\ Spec
    /\ WF_vars(\E r \in expandReqs, resp \in ExpandResponses, now \in 0..MaxClock :
                  ExpandResponse(r, resp, now))

----------------------------------------------------------------------------
(* getLayoutedElements on its own: a graph is put together as processMapData
   and onConnect can put one together, and the function is applied to it *)

(* Saving and exporting *)

\* the body of POST /maps/save without the positions of the nodes
SaveBodyBare ==
    Stringify(topic, level,
              [i \in 1..Len(nodes) |-> [nodes[i] EXCEPT !.position = Origin]],
              edges)

\* the body of POST /maps/save
SaveBody == Stringify(topic, level, nodes, edges)

\* handleSaveMap: POST /maps/save with the graph on display; the store keeps the
\* body under a new id, or the request is rejected and nothing is kept. saving
\* is set before the request and cleared after the response, and disables only
\* the button.
handleSaveMap(how) ==
    /\ page = "viewer"
    /\ how \in {"ok", "reject"}
    /\ LET id == SavedId(Cardinality({j \in SavedIds : store[j] # NoDoc}) + 1)
       IN  /\ id \in SavedIds
           /\ IF how = "ok"
              THEN /\ store' = [store EXCEPT ![id] = SaveBody]
                   /\ shown' = [shown EXCEPT ![id] =
                                   [topic |-> topic, level |-> level,
                                    nodes |-> nodes, edges |-> edges]]
              ELSE UNCHANGED storeVars
    /\ lastOp' = [NoOp EXCEPT !.outcome = "save-" \o how,
                              !.toast = IF how = "ok"
                                        THEN "Learning map saved successfully!"
                                        ELSE "Failed to save learning map"]
    /\ UNCHANGED <<dashVars, routeVars, viewVars, netVars, clock, issued, authVars, listVars>>

\* exportData of handleExport, written by JSON.stringify
exportData ==
    Stringify(topic, level, nodes, edges)
        \o << <<"exported_at", ToString(clock)>> >>

\* handleExport: the document is downloaded; no state of the page changes
handleExport ==
    /\ page = "viewer"
    /\ lastOp' = [NoOp EXCEPT !.outcome = "export",
                              !.toast = "Map exported successfully!"]
    /\ UNCHANGED <<dashVars, routeVars, viewVars, netVars, clock, issued,
                   storeVars, authVars, listVars>>

\* the application with saving and exporting
SaveNext ==
    \/ Next
    \/ \E how \in {"ok", "reject"} : handleSaveMap(how)
    \/ handleExport

SaveSpec == Init /\ [][SaveNext]_vars

----------------------------------------------------------------------------
(* AuthProvider and the pages that sign in and out *)

\* the access_token and the user that /auth/login or /auth/register answer to
\* request rid
AccessToken(rid) == "t" \o ToString(rid)
UserData(rid) == "u" \o ToString(rid)

\* the application starts: AuthProvider mounts with token read from
\* localStorage, and initAuth has sent /auth/me when there is a stored token;
\* the LandingPage is on display
AuthInit ==
    /\ page = "landing"
    /\ dTopic = ""
    /\ dLevel = "Beginner"
    /\ dLoading = FALSE
    /\ genReqs = {}
    /\ mapId = ""
    /\ locState = NoState
    /\ nodes = <<>>
    /\ edges = <<>>
    /\ selectedNode = NoNode
    /\ loading = FALSE
    /\ topic = ""
    /\ level = "Beginner"
    /\ expandReqs = {}
    /\ loadReqs = {}
    /\ clock = 0
    /\ issued = 0
    /\ lastOp = NoOp
    /\ store = StoreInit
    /\ shown = [id \in SavedIds |-> NoGraph]
    /\ user = NoUser
    /\ lsToken \in {NoToken, OldToken}
    /\ token = lsToken
    /\ authLoading = (lsToken # NoToken)
    /\ authReqs = IF lsToken # NoToken
                  THEN {[rid |-> 0, kind |-> "me", storedToken |-> lsToken,
                         mounted |-> TRUE]}
                  ELSE {}
    /\ ListsUnmounted

\* the page after the state of AuthProvider has changed: LandingPage's effect
\* navigates to /dashboard when there is a user; PrivateRoute redirects to /
\* when loading is over and there is none
Routed(pg, u, ld) ==
    IF pg = "landing" /\ u # NoUser THEN "dashboard"
    ELSE IF pg = "dashboard" /\ u = NoUser /\ ~ld THEN "landing"
    ELSE pg

\* initAuth after its await
MeResponse(r, how) ==
    /\ UNCHANGED listVars
    /\ r \in authReqs
    /\ r.kind = "me"
    /\ how \in {"ok", "reject"}
    /\ IF how = "ok"
       THEN /\ user' = OldUser
            /\ token' = r.storedToken
            /\ UNCHANGED lsToken
       ELSE /\ lsToken' = NoToken
            /\ token' = NoToken
            /\ UNCHANGED user
    /\ authLoading' = FALSE
    /\ page' = Routed(page, user', FALSE)
    /\ authReqs' = IF page' = page THEN authReqs \ {r} ELSE Orphaned(authReqs \ {r})
    /\ lastOp' = NoOp
    /\ UNCHANGED <<dashVars, mapId, locState, viewVars, genReqs, expandReqs,
                   loadReqs, clock, issued, storeVars>>

\* handleLogin / handleRegister of the LandingPage up to the await in login /
\* register; the submit buttons are disabled while the page's loading is set
handleLogin(kind) ==
    /\ UNCHANGED listVars
    /\ page = "landing"
    /\ kind \in {"login", "register"}
    /\ ~\E r \in authReqs : r.kind # "me" /\ r.mounted
    /\ issued < MaxReq
    /\ issued' = issued + 1
    /\ authReqs' = authReqs \cup {[rid |-> issued + 1, kind |-> kind,
                                    storedToken |-> NoToken, mounted |-> TRUE]}
    /\ lastOp' = NoOp
    /\ UNCHANGED <<dashVars, routeVars, viewVars, genReqs, expandReqs, loadReqs,
                   clock, storeVars, user, token, lsToken, authLoading>>

\* login / register after the await, and handleLogin / handleRegister after
\* theirs: navigate('/dashboard') on success
LoginResponse(r, how) ==
    /\ UNCHANGED listVars
    /\ r \in authReqs
    /\ r.kind \in {"login", "register"}
    /\ how \in {"ok", "reject"}
    /\ IF how = "ok"
       THEN /\ lsToken' = AccessToken(r.rid)
            /\ token' = AccessToken(r.rid)
            /\ user' = UserData(r.rid)
            /\ page' = "dashboard"
       ELSE UNCHANGED <<lsToken, token, user, page>>
    /\ authReqs' = IF page' = page THEN authReqs \ {r} ELSE Orphaned(authReqs \ {r})
    /\ lastOp' = [NoOp EXCEPT !.outcome = r.kind \o "-" \o how,
                              !.toast = IF how = "reject"
                                        THEN IF r.kind = "login" THEN "Login failed"
                                             ELSE "Registration failed"
                                        ELSE IF r.kind = "login" THEN "Welcome back!"
                                        ELSE "Account created successfully!"]
    /\ UNCHANGED <<dashVars, mapId, locState, viewVars, genReqs, expandReqs,
                   loadReqs, clock, issued, storeVars, authLoading>>

\* handleLogout of the Dashboard, which PrivateRoute renders when loading is
\* over and there is a user: logout() and navigate('/')
handleLogout ==
    /\ UNCHANGED listVars
    /\ page = "dashboard"
    /\ ~authLoading
    /\ user # NoUser
    /\ lsToken' = NoToken
    /\ token' = NoToken
    /\ user' = NoUser
    /\ page' = "landing"
    /\ authReqs' = Orphaned(authReqs)
    /\ lastOp' = [NoOp EXCEPT !.outcome = "logout",
                              !.toast = "Logged out successfully"]
    /\ UNCHANGED <<dashVars, mapId, locState, viewVars, genReqs, expandReqs,
                   loadReqs, clock, issued, storeVars, authLoading>>

AuthNext ==
    \/ \E r \in authReqs, how \in {"ok", "reject"} : MeResponse(r, how)
    \/ \E kind \in {"login", "register"} : handleLogin(kind)
    \/ \E r \in authReqs, how \in {"ok", "reject"} : LoginResponse(r, how)
    \/ handleLogout

AuthSpec == AuthInit /\ [][AuthNext]_vars

----------------------------------------------------------------------------
(* Curating the graph by hand *)

\* a sequence without its i-th element
Remove(seq, i) == SubSeq(seq, 1, i - 1) \o SubSeq(seq, i + 1, Len(seq))

\* the edges among es that do not touch node v
RECURSIVE Untouched(_, _)
Untouched(es, v) ==
    IF es = <<>> THEN <<>>
    ELSE IF Head(es).source = v \/ Head(es).target = v
         THEN Untouched(Tail(es), v)
         ELSE <<Head(es)>> \o Untouched(Tail(es), v)

\* the edges React Flow's addEdge made from a connection
ByHand(es) == {i \in 1..Len(es) : es[i].id[1] = "reactflow__edge"}

\* onConnect: setEdges((eds) => addEdge(params, eds)) for a connection drawn from
\* the source handle of v to the target handle of w. addEdge names the edge by
\* the nodes and their handles and leaves eds as it is when it holds an edge
\* between the same handles.
onConnect(v, w) ==
    /\ page = "viewer"
    /\ v \in NodeIds(nodes)
    /\ w \in NodeIds(nodes)
    /\ Cardinality(ByHand(edges)) < MaxConnect
    /\ LET id == <<"reactflow__edge">> \o v \o <<"source">> \o w \o <<"target">>
       IN  edges' = IF id \in EdgeIds(edges) THEN edges
                    ELSE Append(edges, [id |-> id, source |-> v, target |-> w])
    /\ lastOp' = NoOp
    /\ UNCHANGED <<dashVars, routeVars, nodes, selectedNode, loading, topic, level,
                   netVars, clock, issued, storeVars, authVars, listVars>>

\* onEdgesChange with the removal of the i-th edge (the edge selected, then
\* Backspace)
onEdgesChange(i) ==
    /\ page = "viewer"
    /\ i \in 1..Len(edges)
    /\ edges' = Remove(edges, i)
    /\ lastOp' = NoOp
    /\ UNCHANGED <<dashVars, routeVars, nodes, selectedNode, loading, topic, level,
                   netVars, clock, issued, storeVars, authVars, listVars>>

\* onNodesChange with the removal of the i-th node, and onEdgesChange with the
\* removal of the edges at it, which React Flow sends with it
onNodesChange(i) ==
    /\ page = "viewer"
    /\ i \in 1..Len(nodes)
    /\ nodes' = Remove(nodes, i)
    /\ edges' = Untouched(edges, nodes[i].id)
    /\ lastOp' = NoOp
    /\ UNCHANGED <<dashVars, routeVars, selectedNode, loading, topic, level,
                   netVars, clock, issued, storeVars, authVars, listVars>>

\* the MapViewer as opening saved map id and its load leave it, in a run that
\* has room for one more request
CurateInit ==
    /\ page = "viewer"
    /\ mapId \in MapIds
    /\ locState = NoState
    /\ dTopic = ""
    /\ dLevel = "Beginner"
    /\ dLoading = FALSE
    /\ genReqs = {}
    /\ topic = StoredMap(mapId).topic
    /\ level = StoredMap(mapId).level
    /\ nodes = StoredMap(mapId).nodes
    /\ edges = StoredMap(mapId).edges
    /\ selectedNode = NoNode
    /\ loading = FALSE
    /\ expandReqs = {}
    /\ loadReqs = {}
    /\ clock = 0
    /\ issued = MaxReq - 1
    /\ lastOp = NoOp
    /\ store = StoreInit
    /\ shown = [id \in SavedIds |-> NoGraph]
    /\ AuthSignedIn
    /\ ListsUnmounted

\* a saved map on display, curated by hand and expanded
CurateNext ==
    \/ \E i \in 1..Len(nodes) : onNodeClick(i)
    \/ ClosePanel
    \/ handleExpandNode
    \/ \E r \in expandReqs, resp \in ExpandResponses, now \in 0..MaxClock :
          ExpandResponse(r, resp, now)
    \/ \E v, w \in NodeIds(nodes) : onConnect(v, w)
    \/ \E i \in 1..Len(edges) : onEdgesChange(i)
    \/ \E i \in 1..Len(nodes) : onNodesChange(i)

CurateSpec == CurateInit /\ [][CurateNext]_vars

----------------------------------------------------------------------------
(* Loading the records a store can hold *)

\* a document without the entries under the keys ks, at its top level
Without(doc, ks) ==
    LET keep == {i \in 1..Len(doc) : doc[i][1] \notin ks}
        RECURSIVE Pick(_, _)
        Pick(i, acc) == IF i > Len(doc) THEN acc
                        ELSE Pick(i + 1, IF i \in keep THEN Append(acc, doc[i]) ELSE acc)
    IN  Pick(1, <<>>)

\* the document of saved map id
StoredDoc(id) ==
    Stringify(StoredMap(id).topic, StoredMap(id).level, StoredMap(id).nodes,
              StoredMap(id).edges)
\* the same map saved by a client that sends no positions
BareDoc(id) ==
    << <<"topic", StoredMap(id).topic>>, <<"level", StoredMap(id).level>>,
       <<"nodes", [i \in 1..Len(StoredMap(id).nodes) |->
                     Without(JsonNode(StoredMap(id).nodes[i]), {"position"})]>>,
       <<"edges", JsonGet(StoredDoc(id), "edges")>> >>
\* with an edge to a node that is not in the record
DanglingDoc(id) ==
    Stringify(StoredMap(id).topic, StoredMap(id).level, StoredMap(id).nodes,
              Append(StoredMap(id).edges,
                     [id |-> <<"e1", "d", "z">>, source |-> <<"d">>,
                      target |-> <<"z">>]))
\* without its topic; without its level
TopiclessDoc(id) == Without(StoredDoc(id), {"topic"})
LevellessDoc(id) == Without(StoredDoc(id), {"level"})
ImportDocs(id) ==
    {StoredDoc(id), BareDoc(id), DanglingDoc(id), TopiclessDoc(id), LevellessDoc(id)}

ImportInit ==
    /\ page = "dashboard"
    /\ dTopic = ""
    /\ dLevel = "Beginner"
    /\ dLoading = FALSE
    /\ genReqs = {}
    /\ mapId = ""
    /\ locState = NoState
    /\ nodes = <<>>
    /\ edges = <<>>
    /\ selectedNode = NoNode
    /\ loading = FALSE
    /\ topic = ""
    /\ level = "Beginner"
    /\ expandReqs = {}
    /\ loadReqs = {}
    /\ clock = 0
    /\ issued = 0
    /\ lastOp = NoOp
    /\ store \in [MapIds \cup SavedIds -> UNION {ImportDocs(id) : id \in MapIds} \cup {NoDoc}]
    /\ \A id \in MapIds : store[id] \in ImportDocs(id)
    /\ \A id \in SavedIds : store[id] = NoDoc
    /\ shown = [id \in SavedIds |-> NoGraph]
    /\ AuthSignedIn
    /\ ListsUnmounted

\* the saved maps opened from the Dashboard, looked at in the MapViewer and
\* exported
ImportNext ==
    \/ \E m \in MapIds \cup SavedIds : OpenSavedMap(m)
    \/ \E r \in loadReqs, how \in {"ok", "fail", "reject"} : LoadResponse(r, how)
    \/ \E i \in 1..Len(nodes) : onNodeClick(i)
    \/ ClosePanel
    \/ handleExport
    \/ Back

ImportSpec == ImportInit /\ [][ImportNext]_vars

----------------------------------------------------------------------------
(* SavedMaps *)

\* the ids under which the store holds a map, in the order GET /maps lists them
RECURSIVE Listed(_, _)
Listed(st, ids) ==
    IF ids = <<>> THEN <<>>
    ELSE IF st[Head(ids)] # NoDoc
         THEN <<Head(ids)>> \o Listed(st, Tail(ids))
         ELSE Listed(st, Tail(ids))
StoreIds == [i \in 1..(MaxSaved + 1) |-> IF i = 1 THEN "m1" ELSE SavedId(i - 1)]

\* maps.filter((map) => map.id !== mapId)
RECURSIVE Filter(_, _)
Filter(ms, id) ==
    IF ms = <<>> THEN <<>>
    ELSE IF Head(ms) # id THEN <<Head(ms)>> \o Filter(Tail(ms), id)
         ELSE Filter(Tail(ms), id)

\* the list DeleteResponse sets: the maps of the render in which Delete was
\* clicked, without the map deleted
DeleteResult(r) == Filter(r.maps, r.id)

\* the SavedMaps page has mounted for a signed-in user whose maps are in the
\* store, and its effect has called loadMaps
SavedInit ==
    /\ page = "saved-maps"
    /\ dTopic = ""
    /\ dLevel = "Beginner"
    /\ dLoading = FALSE
    /\ genReqs = {}
    /\ mapId = ""
    /\ locState = NoState
    /\ nodes = <<>>
    /\ edges = <<>>
    /\ selectedNode = NoNode
    /\ loading = FALSE
    /\ topic = ""
    /\ level = "Beginner"
    /\ expandReqs = {}
    /\ loadReqs = {}
    /\ clock = 0
    /\ issued = 1
    /\ lastOp = NoOp
    /\ store = [id \in MapIds \cup SavedIds |-> StoredDoc("m1")]
    /\ shown = [id \in SavedIds |-> NoGraph]
    /\ user = OldUser
    /\ token = OldToken
    /\ lsToken = OldToken
    /\ authLoading = FALSE
    /\ authReqs = {}
    /\ maps = <<>>
    /\ listReqs = {[rid |-> 1, mounted |-> TRUE]}
    /\ delReqs = {}

\* the requests of a SavedMaps page that has unmounted: their responses set
\* the state of a component that is no longer on the page
Unmounted(reqs) == {[r EXCEPT !.mounted = FALSE] : r \in reqs}

\* the Saved Maps button of the Dashboard: SavedMaps mounts and its effect
\* calls loadMaps
OpenSavedMaps ==
    /\ page = "dashboard"
    /\ issued < MaxReq
    /\ page' = "saved-maps"
    /\ issued' = issued + 1
    /\ maps' = <<>>
    /\ listReqs' = listReqs \cup {[rid |-> issued + 1, mounted |-> TRUE]}
    /\ lastOp' = NoOp
    /\ UNCHANGED <<dashVars, mapId, locState, viewVars, netVars, clock,
                   storeVars, authVars, delReqs>>

\* the Back to Dashboard button of SavedMaps
BackToDashboard ==
    /\ page = "saved-maps"
    /\ page' = "dashboard"
    /\ maps' = <<>>
    /\ listReqs' = Unmounted(listReqs)
    /\ delReqs' = Unmounted(delReqs)
    /\ lastOp' = NoOp
    /\ UNCHANGED <<dashVars, mapId, locState, viewVars, netVars, clock, issued,
                   storeVars, authVars>>

\* loadMaps after its await
ListResponse(r, how) ==
    /\ r \in listReqs
    /\ how \in {"ok", "fail", "reject"}
    /\ listReqs' = listReqs \ {r}
    /\ maps' = IF how = "ok" /\ r.mounted THEN Listed(store, StoreIds) ELSE maps
    /\ lastOp' = [NoOp EXCEPT !.outcome = "list-" \o how,
                              !.toast = IF how = "reject"
                                        THEN "Failed to load saved maps" ELSE ""]
    /\ UNCHANGED <<dashVars, routeVars, viewVars, netVars, clock, issued,
                   storeVars, authVars, delReqs>>

\* handleDelete up to its await, the confirm dialog accepted: the request, and
\* the maps of the render it was clicked in
handleDelete(i) ==
    /\ page = "saved-maps"
    /\ i \in 1..Len(maps)
    /\ issued < MaxReq
    /\ issued' = issued + 1
    /\ delReqs' = delReqs \cup {[rid |-> issued + 1, id |-> maps[i], maps |-> maps,
                                mounted |-> TRUE]}
    /\ lastOp' = NoOp
    /\ UNCHANGED <<dashVars, routeVars, viewVars, netVars, clock, storeVars,
                   authVars, maps, listReqs>>

\* handleDelete after its await: the store has deleted the map and answers
\* success; or it answers success = false; or the request is rejected (as it
\* is when the store holds no such map)
DeleteResponse(r, how) ==
    /\ r \in delReqs
    /\ how \in {"ok", "fail", "reject"}
    /\ how = "ok" => store[r.id] # NoDoc
    /\ delReqs' = delReqs \ {r}
    /\ IF how = "ok"
       THEN /\ store' = [store EXCEPT ![r.id] = NoDoc]
            /\ maps' = IF r.mounted THEN DeleteResult(r) ELSE maps
       ELSE UNCHANGED <<store, maps>>
    /\ lastOp' = [NoOp EXCEPT !.outcome = "delete-" \o how,
                              !.toast = IF how = "ok" THEN "Learning map deleted"
                                        ELSE IF how = "reject"
                                        THEN "Failed to delete learning map" ELSE ""]
    /\ UNCHANGED <<dashVars, routeVars, viewVars, netVars, clock, issued, shown,
                   authVars, listReqs>>

SavedNext ==
    \/ \E r \in listReqs, how \in {"ok", "fail", "reject"} : ListResponse(r, how)
    \/ \E i \in 1..Len(maps) : handleDelete(i)
    \/ \E r \in delReqs, how \in {"ok", "fail", "reject"} : DeleteResponse(r, how)
    \/ OpenSavedMaps
    \/ BackToDashboard

SavedSpec == SavedInit /\ [][SavedNext]_vars

----------------------------------------------------------------------------
LayoutIds == {<<"p">>, <<"q">>, <<"r">>, <<"s">>}

\* processedNodes: the placeholder position, ids as the payload gives them
LayoutNode(i) == [id |-> i, label |-> "", position |-> Origin]
LayoutNodeInputs ==
    {<<>>,
     <<LayoutNode(<<"p">>)>>,
     <<LayoutNode(<<"p">>), LayoutNode(<<"p">>)>>,
     <<LayoutNode(<<"p">>), LayoutNode(<<"q">>), LayoutNode(<<"r">>),
       LayoutNode(<<"s">>)>>}

\* the edges a graph can hold: between any two of p, q and r, from p to itself,
\* and between s and two of the others
LayoutPairs ==
    ({<<v, w>> : v, w \in LayoutIds \ {<<"s">>}}
        \ {<<<<"q">>, <<"q">>>>, <<<<"r">>, <<"r">>>>})
    \cup {<<<<"s">>, <<"r">>>>, <<<<"r">>, <<"s">>>>, <<<<"p">>, <<"s">>>>}

LayoutInit ==
    /\ page = "viewer"
    /\ mapId = "new"
    /\ dTopic = ""
    /\ dLevel = "Beginner"
    /\ dLoading = FALSE
    /\ genReqs = {}
    /\ locState = NoState
    /\ nodes \in LayoutNodeInputs
    /\ edges = <<>>
    /\ selectedNode = NoNode
    /\ loading = FALSE
    /\ topic = ""
    /\ level = "Beginner"
    /\ expandReqs = {}
    /\ loadReqs = {}
    /\ clock = 0
    /\ issued = 0
    /\ lastOp = NoOp
    /\ store = StoreInit
    /\ shown = [id \in SavedIds |-> NoGraph]
    /\ AuthSignedIn
    /\ ListsUnmounted

\* one more edge for the graph, with the id processMapData gives it
LayoutAddEdge(v, w) ==
    /\ UNCHANGED storeVars
    /\ UNCHANGED authVars
    /\ UNCHANGED listVars
    /\ lastOp = NoOp
    /\ Len(edges) < MaxLayoutEdges
    /\ edges' = Append(edges, [id |-> <<"e" \o ToString(Len(edges))>> \o v \o w,
                               source |-> v, target |-> w])
    /\ UNCHANGED <<dashVars, routeVars, netVars, nodes, selectedNode, loading,
                   topic, level, clock, issued, lastOp>>

\* getLayoutedElements(nodes, edges), and setNodes / setEdges with what it returns
LayoutApply ==
    /\ UNCHANGED storeVars
    /\ UNCHANGED authVars
    /\ UNCHANGED listVars
    /\ lastOp = NoOp
    /\ LET layouted == getLayoutedElements(nodes, edges)
       IN  /\ nodes' = layouted.nodes
           /\ edges' = layouted.edges
    /\ lastOp' = [NoOp EXCEPT !.outcome = "layout"]
    /\ UNCHANGED <<dashVars, routeVars, netVars, selectedNode, loading, topic,
                   level, clock, issued>>

\* getLayoutedElements once more, on the graph it has laid out
LayoutAgain ==
    /\ UNCHANGED storeVars
    /\ UNCHANGED authVars
    /\ UNCHANGED listVars
    /\ lastOp.outcome = "layout"
    /\ LET layouted == getLayoutedElements(nodes, edges)
       IN  /\ nodes' = layouted.nodes
           /\ edges' = layouted.edges
    /\ lastOp' = [NoOp EXCEPT !.outcome = "layout-again"]
    /\ UNCHANGED <<dashVars, routeVars, netVars, selectedNode, loading, topic,
                   level, clock, issued>>

LayoutNext ==
    \/ \E e \in LayoutPairs : LayoutAddEdge(e[1], e[2])
    \/ LayoutApply
    \/ LayoutAgain

LayoutSpec == LayoutInit /\ [][LayoutNext]_vars

----------------------------------------------------------------------------
(* Properties *)

ExpandFailures == {"reject", "fail", "notlist"}
GenerateFailures == {"generate-reject", "generate-fail"}

\* an id made by an expansion, `${parent}-sub-${Date.now()}-${index}`
IsSubId(id) == Len(id) >= 4 /\ id[Len(id) - 2] = "sub"
\* the id of the edge an expansion makes for the child id
ParentEdgeId(id) == <<"e">> \o SubSeq(id, 1, Len(id) - 3) \o id

\* C1: when handleExpandNode fails (the request rejects, success is false, or
\* subtopics is no list), nodes and edges after the call are those before it.
C1_FailedExpandChangesNothing ==
    [][lastOp'.outcome \in ExpandFailures => nodes' = nodes /\ edges' = edges]_vars

\* C1 witness: a failed expansion has just been handled on a graph with nodes.
C1_Witness == lastOp.outcome \in ExpandFailures /\ Len(nodes) > 0

C3_OneExpansionPerNode ==
    /\ \A r1, r2 \in expandReqs : r1.sel.id = r2.sel.id => r1 = r2
    /\ (\E r \in expandReqs : r.sel.id = selectedNode.id) => ~ENABLED handleExpandNode

\* C3 witness: the node whose expansion is in flight is selected, and the bound on
\* requests would allow another one.
C3_Witness ==
    /\ page = "viewer"
    /\ \E r \in expandReqs : r.sel.id = selectedNode.id
    /\ issued < MaxReq

\* C4: when the viewer has moved to another mapId while an expand-node request
\* was in flight, handling the late response changes neither nodes nor edges.
C4_LateResponseIgnored ==
    [][\A r \in expandReqs :
          (r \notin expandReqs' /\ lastOp'.outcome # "none" /\ r.mapId # mapId)
          => nodes' = nodes /\ edges' = edges]_vars

\* C5: node ids are pairwise distinct and edge ids are pairwise distinct.
C5_UniqueIds ==
    /\ \A i, j \in 1..Len(nodes) : nodes[i].id = nodes[j].id => i = j
    /\ \A i, j \in 1..Len(edges) : edges[i].id = edges[j].id => i = j

\* C6: the source and the target of every edge are ids of nodes of the graph.
C6_EdgesResolve ==
    \A i \in 1..Len(edges) :
        edges[i].source \in NodeIds(nodes) /\ edges[i].target \in NodeIds(nodes)

\* C7: expanding a selected node whose id is not in the graph fails and leaves
\* nodes and edges unchanged.
C7_StaleSelectionFails ==
    [][(lastOp'.outcome # "none" /\ lastOp'.stale)
       => /\ lastOp'.toast # "Node expanded successfully!"
          /\ nodes' = nodes
          /\ edges' = edges]_vars

\* C8: an expand response with an empty subtopics list is reported as a failure.
C8_EmptyListFails ==
    (lastOp.outcome = "ok" /\ lastOp.k = 0) => lastOp.toast = "Failed to expand node"

\* C9: nodes and edges are never seen partly merged: a child made by an
\* expansion is in nodes exactly when its parent edge is in edges, and then
\* every node stands where the layout of the whole graph puts it.
C9_NoPartialMerge ==
    /\ \A i \in 1..Len(nodes) :
          IsSubId(nodes[i].id) => ParentEdgeId(nodes[i].id) \in EdgeIds(edges)
    /\ \A j \in 1..Len(edges) :
          (IsSubId(edges[j].target) /\ edges[j].id = ParentEdgeId(edges[j].target))
          => edges[j].target \in NodeIds(nodes)
    /\ (lastOp.outcome = "ok" /\ \E i \in 1..Len(nodes) : IsSubId(nodes[i].id))
          => nodes = getLayoutedElements(nodes, edges).nodes

\* C9 witness: an expansion has just merged its children into the graph.
C9_Witness ==
    /\ lastOp.outcome = "ok"
    /\ lastOp.k > 0
    /\ \E i \in 1..Len(nodes) : IsSubId(nodes[i].id)

\* C10: no graph is produced or displayed from an initial payload that has no
\* nodes or has an edge whose from or to is no node of the payload.
C10_MalformedPayloadRejected ==
    LET p == locState.mapData
        ids == {p.nodes[i].id : i \in 1..Len(p.nodes)}
    IN  ~(/\ page = "viewer"
          /\ mapId = "new"
          /\ locState.set
          /\ \/ Len(p.nodes) = 0
             \/ \E i \in 1..Len(p.edges) :
                   p.edges[i].from \notin ids \/ p.edges[i].to \notin ids)

\* C11: when the generate-map request rejects or returns success = false, the
\* route and the viewer's graph stay as they are, no request is issued, and the
\* loading flag of the Dashboard that made the request is false afterwards.
C11_GenerateFailureProducesNothing ==
    [][lastOp'.outcome \in GenerateFailures
       => /\ UNCHANGED <<routeVars, viewVars, expandReqs, loadReqs, issued>>
          /\ genReqs' \subseteq genReqs
          /\ \A r \in genReqs \ genReqs' : r.mounted => ~dLoading']_vars

\* C11 witness: a generate-map request of the mounted Dashboard has just failed.
C11_Witness ==
    /\ lastOp.outcome \in GenerateFailures
    /\ page = "dashboard"
    /\ ~dLoading
    /\ genReqs = {}

\* C12: a successful expansion of a graph that is still the one it was started
\* on keeps every node and every edge the graph had, in their order, and puts
\* after them its k children and one parent edge per child; so expansions made
\* one after another accumulate.
C12_ExpansionsAccumulate ==
    [][\A r \in expandReqs :
          (/\ r \notin expandReqs'
           /\ lastOp'.outcome = "ok"
           /\ r.nodes = nodes
           /\ r.edges = edges)
          => /\ Len(nodes') = Len(nodes) + lastOp'.k
             /\ Len(edges') = Len(edges) + lastOp'.k
             /\ \A i \in 1..Len(nodes) : /\ nodes'[i].id = nodes[i].id
                                         /\ nodes'[i].label = nodes[i].label
             /\ SubSeq(edges', 1, Len(edges)) = edges
             /\ \A i \in 1..lastOp'.k :
                   LET child == nodes'[Len(nodes) + i]
                       edge == edges'[Len(edges) + i]
                   IN  /\ IsSubId(child.id)
                       /\ edge.id = ParentEdgeId(child.id)
                       /\ edge.source = r.sel.id
                       /\ edge.target = child.id]_vars

\* C12 witness: a second expansion has just succeeded on a graph that holds the
\* child of an earlier one, and both children are in the graph.
C12_Witness ==
    /\ lastOp.outcome = "ok"
    /\ lastOp.k > 0
    /\ Cardinality({i \in 1..Len(nodes) : IsSubId(nodes[i].id)}) >= 2
    /\ Cardinality({i \in 1..Len(nodes) : ~IsSubId(nodes[i].id)}) >= 2

\* C13: after every successful expansion every node, old or new, stands where
\* getLayoutedElements puts it when given all nodes and all edges of the merged
\* graph.
C13_LayoutOverMergedGraph ==
    [][lastOp'.outcome = "ok"
       => nodes' = getLayoutedElements(nodes', edges').nodes]_vars

\* C13 witness: an expansion has just added a child, and the layout has moved
\* the child off its placeholder position.
C13_Witness ==
    /\ lastOp.outcome = "ok"
    /\ lastOp.k > 0
    /\ \E i \in 1..Len(nodes) : IsSubId(nodes[i].id) /\ nodes[i].position # Origin
    /\ \E i \in 1..Len(nodes) : ~IsSubId(nodes[i].id)

LaidOut == lastOp.outcome \in {"layout", "layout-again"}

\* C14: in a graph returned by getLayoutedElements the 250x100 boxes of any two
\* nodes, placed at the positions assigned, do not intersect.
C14_NoOverlap ==
    LaidOut =>
        \A i, j \in 1..Len(nodes) :
            i # j =>
                LET dx == nodes[i].position.x - nodes[j].position.x
                    dy == nodes[i].position.y - nodes[j].position.y
                IN  \/ dx >= NodeWidth \/ -dx >= NodeWidth
                    \/ dy >= NodeHeight \/ -dy >= NodeHeight

\* C15: getLayoutedElements returns a position for every node of any graph, with
\* directed cycles and self-loops or without; and it has broken the cycles: the
\* two ends of every edge between different nodes are on different ranks.
C15_LayoutUnderCycles ==
    LaidOut =>
        /\ \A i \in 1..Len(nodes) :
               nodes[i].position.x \in Nat /\ nodes[i].position.y \in Nat
        /\ \A i, j \in 1..Len(nodes), k \in 1..Len(edges) :
               (/\ edges[k].source = nodes[i].id
                /\ edges[k].target = nodes[j].id
                /\ nodes[i].id # nodes[j].id)
               => nodes[i].position.y # nodes[j].position.y

\* C15 witness: a graph with a cycle of three edges has been laid out, and so
\* has one with a self-loop and a cycle of two.
C15_Witness ==
    /\ LaidOut
    /\ Len(nodes) = 4
    /\ LET pairs == {<<edges[k].source[1], edges[k].target[1]>> : k \in 1..Len(edges)}
       IN  pairs \in {{<<"p", "q">>, <<"q", "r">>, <<"r", "p">>},
                      {<<"p", "p">>, <<"p", "q">>, <<"q", "p">>}}

\* C16: in the layout of an acyclic graph whose ids are distinct and whose edges
\* join its nodes, every node is on the rank that is the number of edges of the
\* longest path into it, so every node without incoming edges is on rank 0.
C16_RankIsLongestPath ==
    LET ids == NodeIds(nodes)
        Targets(S) == {edges[k].target : k \in {k \in 1..Len(edges) : edges[k].source \in S}}
        RECURSIVE Ends(_)
        Ends(n) == IF n = 0 THEN ids ELSE Targets(Ends(n - 1))
        Longest(v) == CHOOSE n \in 0..Len(nodes) :
                         v \in Ends(n) /\ \A m \in (n + 1)..Len(nodes) : v \notin Ends(m)
    IN  (/\ LaidOut
         /\ Cardinality(ids) = Len(nodes)
         /\ \A k \in 1..Len(edges) : edges[k].source \in ids /\ edges[k].target \in ids
         /\ Ends(Len(nodes)) = {})
        => \A i \in 1..Len(nodes) :
              nodes[i].position.y = Longest(nodes[i].id) * (NodeHeight + RankSep)

GraphContext(id) ==
    IF \E m \in MapIds : <<id[1]>> \in NodeIds(StoredMap(m).nodes)
    THEN LET m == CHOOSE m \in MapIds : <<id[1]>> \in NodeIds(StoredMap(m).nodes)
         IN  [topic |-> StoredMap(m).topic, level |-> StoredMap(m).level]
    ELSE [topic |-> CHOOSE t \in {Trim(t) : t \in TopicInputs} : t # "",
          level |-> "Beginner"]

\* C19: every expand-node request sends the topic and level of the graph its
\* selected node belongs to, that graph is the one on display, and every node
\* on display belongs to a graph of the topic and level the viewer holds.
C19_TopicLevelOfGraph ==
    [][/\ \A r \in expandReqs' \ expandReqs :
             /\ r.sel.id \in NodeIds(nodes)
             /\ [topic |-> r.topic, level |-> r.level] = GraphContext(r.sel.id)
       /\ \A i \in 1..Len(nodes') :
             GraphContext(nodes'[i].id) = [topic |-> topic', level |-> level']]_vars

JsonKeys(doc) == [i \in 1..Len(doc) |-> doc[i][1]]

\* C21: the document handleExport writes has the keys topic, level, nodes,
\* edges, exportedAt; topic and level are those of the viewer, every node on
\* display is there with id, label and position, every edge with id, source
\* and target.
C21_CanonicalExport ==
    [][lastOp'.outcome = "export"
       => /\ JsonKeys(exportData) = <<"topic", "level", "nodes", "edges", "exportedAt">>
          /\ JsonGet(exportData, "topic") = topic
          /\ JsonGet(exportData, "level") = level
          /\ Len(JsonGet(exportData, "nodes")) = Len(nodes)
          /\ \A i \in 1..Len(nodes) :
                /\ JsonKeys(JsonGet(exportData, "nodes")[i]) = <<"id", "label", "position">>
                /\ ParseNode(JsonGet(exportData, "nodes")[i]) = nodes[i]
          /\ Len(JsonGet(exportData, "edges")) = Len(edges)
          /\ \A i \in 1..Len(edges) :
                /\ JsonKeys(JsonGet(exportData, "edges")[i]) = <<"id", "source", "target">>
                /\ ParseEdge(JsonGet(exportData, "edges")[i]) = edges[i]]_vars

\* the step takes in the response of loadMap for request r and the viewer shows
\* what it brought
Imported(r) ==
    /\ r \in loadReqs
    /\ r \notin loadReqs'
    /\ page' = "viewer"
    /\ <<topic', level', nodes', edges'>> # <<topic, level, nodes, edges>>

\* every node of the record has a position
HasPositions(doc) ==
    \A i \in 1..Len(JsonGet(doc, "nodes")) : JsonHas(JsonGet(doc, "nodes")[i], "position")

\* C22: a loaded record with positions is shown with exactly those positions;
\* a loaded record without positions is shown with the positions the layout
\* gives to its graph.
C22_ImportLayoutFallback ==
    [][\A r \in loadReqs :
          Imported(r)
          => IF HasPositions(store[r.id])
             THEN \A i \in 1..Len(nodes') :
                     nodes'[i].position =
                        [x |-> JsonGet(JsonGet(JsonGet(store[r.id], "nodes")[i], "position"), "x"),
                         y |-> JsonGet(JsonGet(JsonGet(store[r.id], "nodes")[i], "position"), "y")]
             ELSE nodes' = getLayoutedElements(nodes', edges').nodes]_vars

\* a record without one of its fields, or with an edge whose source or target
\* is not the id of one of its nodes
InvalidRecord(doc) ==
    \/ \E k \in {"topic", "level", "nodes", "edges"} : ~JsonHas(doc, k)
    \/ \E i \in 1..Len(Parse(doc).edges) :
          \/ Parse(doc).edges[i].source \notin NodeIds(Parse(doc).nodes)
          \/ Parse(doc).edges[i].target \notin NodeIds(Parse(doc).nodes)

\* C23: when the response of loadMap brings an invalid record, the graph on
\* display, the topic and the level stay as they were.
C23_InvalidRecordRejected ==
    [][\A r \in loadReqs :
          (r \notin loadReqs' /\ page' = "viewer" /\ InvalidRecord(store[r.id]))
          => UNCHANGED <<topic, level, nodes, edges>>]_vars

\* C24: when an expansion's result is applied, what was done to the graph by
\* hand while the request was pending is still there: every node and edge of
\* the graph on display stays, and what was removed from the graph the
\* request was issued on stays removed.
C24_NoLostUpdate ==
    [][\A r \in expandReqs :
          (r \notin expandReqs' /\ lastOp'.outcome = "ok" /\ r.mapId = mapId)
          => /\ EdgeIds(edges) \subseteq EdgeIds(edges')
             /\ NodeIds(nodes) \subseteq NodeIds(nodes')
             /\ (EdgeIds(r.edges) \ EdgeIds(edges)) \cap EdgeIds(edges') = {}
             /\ (NodeIds(r.nodes) \ NodeIds(nodes)) \cap NodeIds(nodes') = {}]_vars

\* C25: getLayoutedElements returns a result for every graph; the nodes it
\* returns are the nodes it was given, in their order, each with its id and
\* label and with a position; the edges it returns are the edges it was given;
\* for no nodes it returns no nodes.
C25_LayoutChangesOnlyPositions ==
    [][/\ lastOp = NoOp
          => Len(getLayoutedElements(nodes, edges).nodes) = Len(nodes)
       /\ lastOp'.outcome \in {"layout", "layout-again"}
          => /\ Len(nodes') = Len(nodes)
             /\ \A i \in 1..Len(nodes) :
                   /\ nodes'[i].id = nodes[i].id
                   /\ nodes'[i].label = nodes[i].label
                   /\ DOMAIN nodes'[i] = DOMAIN nodes[i]
                   /\ nodes'[i].position.x \in Int
                   /\ nodes'[i].position.y \in Int
             /\ edges' = edges
             /\ (nodes = <<>> => nodes' = <<>>)]_vars

\* C25 witness: a graph has been laid out in which two nodes have one id and an
\* edge ends at an id that no node has.
C25_Witness ==
    /\ lastOp.outcome = "layout"
    /\ Len(nodes) = 2
    /\ nodes[1].id = nodes[2].id
    /\ \E k \in 1..Len(edges) : edges[k].target \notin NodeIds(nodes)

\* what getAuthHeaders returns
getAuthHeaders == IF token # NoToken THEN <<"Bearer", token>> ELSE <<>>

\* C26: whenever there is a user, the token state is set and is the token in
\* localStorage, and getAuthHeaders returns the header with it.
C26_AuthConsistent ==
    user # NoUser
    => /\ token # NoToken
       /\ token = lsToken
       /\ getAuthHeaders = <<"Bearer", lsToken>>

\* C27: after a delete the store confirmed, the list holds no map the store
\* has deleted and holds every map that was listed and was not deleted by the
\* request; a delete that fails or is rejected leaves the list as it was.
C27_DeleteDoesNotResurrect ==
    [][\A r \in delReqs :
          r.mounted /\ delReqs' = delReqs \ {r}
          => IF lastOp'.outcome = "delete-ok"
             THEN /\ \A i \in 1..Len(maps') : store'[maps'[i]] # NoDoc
                  /\ \A i \in 1..Len(maps) :
                        maps[i] # r.id => \E j \in 1..Len(maps') : maps'[j] = maps[i]
             ELSE maps' = maps]_vars

\* C28: loading is true exactly while an expand-node request of the MapViewer
\* on the page is in flight, an expansion takes a request of its own, and when
\* the requests are answered loading becomes false again.
C28_LoadingTracksRequest ==
    /\ [](loading <=> expandReqs # {})
    /\ [][/\ (~loading /\ loading') => Cardinality(expandReqs') = Cardinality(expandReqs) + 1
          /\ (loading /\ ~loading') => expandReqs' = {}]_vars
    /\ (loading ~> ~loading)
\* a request was answered with subtopics that are no list: the catch and the
\* finally of handleExpandNode ran and loading is false
C28_Witness ==
    /\ page = "viewer"
    /\ lastOp.outcome = "notlist"
    /\ lastOp.toast = "Failed to expand node"
    /\ ~loading
    /\ expandReqs = {}

====
